---- MODULE Spec2Model ----
(***************************************************************************)
(* Model of the SolVM installer (main.go): one run of main, from the       *)
(* banner to process exit.  Every call that touches the environment (the   *)
(* home directory lookup, stdin, the two HTTP requests, the filesystem,    *)
(* the PATH registration commands) is one action whose outcome is drawn    *)
(* from the outcomes the environment can produce.                          *)
(*                                                                         *)
(* Text that the code inspects character by character (a line read from    *)
(* stdin, $SHELL) is a sequence of one-character strings.  Names that the  *)
(* code only builds and compares as a whole (asset names, URLs, tags) are  *)
(* strings.  A nil pointer is the empty sequence, a non-nil one a sequence *)
(* of length one.                                                          *)
(***************************************************************************)
EXTENDS Integers, Sequences, FiniteSets, TLC

VARIABLES
    goos,        \* runtime.GOOS
    goarch,      \* runtime.GOARCH
    shell,       \* os.Getenv("SHELL")
    pc,          \* the statement of main the run is at
    exitCode,    \* the process exit status, meaningful once pc = "exit"
    out,         \* the lines printed by color.*, in order
    dirExists,   \* whether <home>/.solvm exists
    files,       \* file name inside <home>/.solvm -> file
    files0,      \* the content of <home>/.solvm when the run started
    rcFiles,     \* shell resource file name -> file (NoRc if absent)
    winPath,     \* number of times the install dir is in the user-scope Path
    requests,    \* the URLs requested with http.Get, in order
    lookup,      \* getLatestRelease: the outcome of the request and decoding
    release,     \* main: release (nil or one release)
    assetName,   \* getSystemAsset: the constructed expected asset name
    asset,       \* main: asset (nil or one asset)
    err,         \* the error returned by the last call ("" is nil)
    served,      \* downloadFile: the body the server had to send
    prompts,     \* askForConfirmation: times the prompt was printed
    line,        \* askForConfirmation: what reader.ReadString returned
    response,    \* askForConfirmation: the normalised response
    answer       \* askForConfirmation: the value returned (<<>> while reading)

vars == <<goos, goarch, shell, pc, exitCode, out, dirExists, files, files0,
          rcFiles, winPath, requests, lookup, release, assetName, asset,
          err, served, prompts, line, response, answer>>

(***************************************************************************)
(* Bounds of the model.                                                    *)
(***************************************************************************)
MaxPrompts == 2     \* times one prompt is printed before an answer is read
MaxReleases == 2    \* releases in a decoded release list
MaxAssets == 2      \* assets of a release
MaxBody == 2        \* chunks of a download body

(***************************************************************************)
(* Text helpers: strings.TrimSpace, strings.ToLower, strings.Contains and  *)
(* bufio.Reader.ReadString as the code uses them.                          *)
(***************************************************************************)
UpperLetters == <<"A","B","C","D","E","F","G","H","I","J","K","L","M",
                  "N","O","P","Q","R","S","T","U","V","W","X","Y","Z">>
LowerLetters == <<"a","b","c","d","e","f","g","h","i","j","k","l","m",
                  "n","o","p","q","r","s","t","u","v","w","x","y","z">>

IsSpace(c) == c \in {" ", "\t", "\n", "\r", "\f"}

ToLowerChar(c) ==
    IF \E i \in 1..Len(UpperLetters) : UpperLetters[i] = c
    THEN LowerLetters[CHOOSE i \in 1..Len(UpperLetters) : UpperLetters[i] = c]
    ELSE c

ToLower(s) == [i \in 1..Len(s) |-> ToLowerChar(s[i])]

TrimSpace(s) ==
    LET keep == {i \in 1..Len(s) : ~IsSpace(s[i])}
    IN  IF keep = {} THEN <<>>
        ELSE LET lo == CHOOSE i \in keep : \A j \in keep : i <= j
                 hi == CHOOSE i \in keep : \A j \in keep : j <= i
             IN  SubSeq(s, lo, hi)

Contains(s, sub) ==
    \E i \in 1..(Len(s) - Len(sub) + 1) : SubSeq(s, i, i + Len(sub) - 1) = sub

\* reader.ReadString('\n') on the data stdin delivers before it blocks or
\* ends: the text up to and including the first newline, or everything that
\* was there and io.EOF when the stream ends before a newline.
ReadString(data) ==
    LET nl == {i \in 1..Len(data) : data[i] = "\n"}
    IN  IF nl = {} THEN [text |-> data, eof |-> TRUE]
        ELSE [text |-> SubSeq(data, 1, CHOOSE i \in nl : \A j \in nl : i <= j),
              eof |-> FALSE]

(***************************************************************************)
(* The data model: Release and Asset, and the values the environment can   *)
(* hand to the program.                                                    *)
(***************************************************************************)
Asset(name, url) == [Name |-> name, BrowserDownloadURL |-> url]
Release(tag, assets) == [TagName |-> tag, Assets |-> assets]

ReleasesURL == "https://api.github.com/repos/kleeedolinux/SolVM/releases"

GOOSValues == {"windows", "darwin", "linux", "freebsd"}
GOARCHValues == {"amd64", "arm64", "386"}

\* sequences over S of length at most n
SeqUpTo(S, n) == UNION {[1..k -> S] : k \in 0..n}

\* assets a release can list: two with the same name, and names that differ
\* from an expected name only by case or by being a part of it
AssetPool ==
    { Asset("solvm-linux-amd64", "U1"),
      Asset("solvm-linux-amd64", "U2"),
      Asset("Solvm-Linux-AMD64", "U3"),
      Asset("solvm-linux-amd64.tar.gz", "U4"),
      Asset("solvm-windows-amd64.exe", "U5"),
      Asset("solvm-windows-amd64", "U6") }

Tags == {"v1.2.0", "v0.9.0"}

AssetLists == SeqUpTo(AssetPool, MaxAssets)
AllReleases == {Release(t, as) : t \in Tags, as \in AssetLists}

\* what follows the first release in a list: a release with a higher tag and
\* the same asset names at other URLs, and an older one without assets
LaterReleases ==
    { Release("v9.0.0", <<Asset("solvm-linux-amd64", "U7"),
                          Asset("solvm-windows-amd64.exe", "U8")>>),
      Release("v0.1.0", <<>>) }

\* the outcome of the request for the release list: the transport fails, the
\* body does not decode into a list of releases, or it decodes into `list`
Response(kind, list) == [kind |-> kind, list |-> list]
FailedResponses == {Response("transport", <<>>), Response("decode", <<>>)}

AllResponses ==
    FailedResponses \cup {Response("ok", <<>>)}
    \cup {Response("ok", <<h>> \o t) :
             h \in AllReleases, t \in SeqUpTo(LaterReleases, MaxReleases - 1)}

\* the releases a run of the installer is offered: assets for supported and
\* for unsupported hosts, a name differing by case only, and no asset at all
RunReleases ==
    { Release("v1.2.0", <<Asset("solvm-linux-amd64", "U1"),
                          Asset("solvm-windows-amd64.exe", "U5"),
                          Asset("solvm-freebsd-amd64", "U10"),
                          Asset("solvm-linux-386", "U11")>>),
      Release("v1.3.0", <<Asset("Solvm-Darwin-Arm64", "U3"),
                          Asset("solvm-darwin-arm64", "U9")>>),
      Release("v0.1.0", <<>>) }

RunResponses ==
    FailedResponses
    \cup {Response("ok", l) : l \in SeqUpTo(RunReleases, MaxReleases)}

(***************************************************************************)
(* getLatestRelease, without the request itself: from the outcome of the   *)
(* request to the pair (release, error) returned.                          *)
(***************************************************************************)
\* faulty variant: the last release of the list instead of the first
GetLatestRelease_Last(resp) ==
    IF resp.kind = "transport" THEN [release |-> <<>>, err |-> "transport"]
    ELSE IF resp.kind = "decode" THEN [release |-> <<>>, err |-> "decode"]
    ELSE IF Len(resp.list) = 0
         THEN [release |-> <<>>, err |-> "no releases found"]
    ELSE [release |-> <<resp.list[Len(resp.list)]>>, err |-> ""]

GetLatestRelease(resp) ==
    IF resp.kind = "transport" THEN [release |-> <<>>, err |-> "transport"]
    ELSE IF resp.kind = "decode" THEN [release |-> <<>>, err |-> "decode"]
    ELSE IF Len(resp.list) = 0
         THEN [release |-> <<>>, err |-> "no releases found"]
    ELSE [release |-> <<resp.list[1]>>, err |-> ""]

(***************************************************************************)
(* getSystemAsset.                                                         *)
(***************************************************************************)
SupportedOS == {"windows", "darwin", "linux"}
SupportedArch == {"amd64", "arm64"}

\* fmt.Sprintf("solvm-%s-%s", osName, arch), plus ".exe" on windows
\* faulty variant: no .exe suffix on windows
AssetName_NoExe(osName, arch) == "solvm-" \o osName \o "-" \o arch

AssetName(osName, arch) ==
    LET base == "solvm-" \o osName \o "-" \o arch
    IN  IF osName = "windows" THEN base \o ".exe" ELSE base

\* the loop over release.Assets: the indexes whose asset has the name
Matches(assets, name) == {i \in 1..Len(assets) : assets[i].Name = name}

\* faulty variant: the last asset with the name instead of the first
FirstMatch_Last(assets, name) ==
    LET m == Matches(assets, name)
    IN  IF m = {} THEN 0 ELSE CHOOSE i \in m : \A j \in m : j <= i

FirstMatch(assets, name) ==
    LET m == Matches(assets, name)
    IN  IF m = {} THEN 0 ELSE CHOOSE i \in m : \A j \in m : i <= j

\* faulty variant: no check of the OS and the architecture
GetSystemAsset_AnyPlatform(os, arch, rel) ==
    LET name == AssetName(os, arch)
        i == FirstMatch(rel.Assets, name)
    IN  IF i = 0
        THEN [asset |-> <<>>, name |-> name, err |-> "no matching asset found"]
        ELSE [asset |-> <<rel.Assets[i]>>, name |-> name, err |-> ""]

GetSystemAsset(os, arch, rel) ==
    IF os \notin SupportedOS
    THEN [asset |-> <<>>, name |-> "", err |-> "unsupported operating system"]
    ELSE IF arch \notin SupportedArch
    THEN [asset |-> <<>>, name |-> "", err |-> "unsupported architecture"]
    ELSE LET name == AssetName(os, arch)
             i == FirstMatch(rel.Assets, name)
         IN  IF i = 0
             THEN [asset |-> <<>>, name |-> name,
                   err |-> "no matching asset found"]
             ELSE [asset |-> <<rel.Assets[i]>>, name |-> name, err |-> ""]

(***************************************************************************)
(* askForConfirmation: one pass of its loop on what ReadString returned.   *)
(* "yes" and "no" are returns; "again" is the next iteration of the loop.  *)
(***************************************************************************)
Normalise(text) == ToLower(TrimSpace(text))

\* faulty variant: everything but y and yes declines
Classify_DefaultNo(read) ==
    IF read.eof THEN "no"
    ELSE IF Normalise(read.text) \in {<<"y">>, <<"y", "e", "s">>} THEN "yes"
    ELSE "no"

Classify(read) ==
    IF read.eof THEN "no"
    ELSE IF Normalise(read.text) \in {<<"y">>, <<"y", "e", "s">>} THEN "yes"
    ELSE IF Normalise(read.text) \in {<<"n">>, <<"n", "o">>, <<>>} THEN "no"
    ELSE "again"

\* what stdin can deliver to one ReadString call
StdinData ==
    { <<"y", "\n">>, <<" ", "Y", "e", "S", "\r", "\n">>, <<"y", "e", "s", "\n">>,
      <<"n", "\n">>, <<"N", "O", "\n">>, <<"\n">>, <<" ", "\t", "\n">>,
      <<"m", "a", "y", "b", "e", "\n">>, <<"y", "e", "p", "\n">>,
      <<"y">>, <<>> }

(***************************************************************************)
(* The filesystem under <home>/.solvm and the shell resource files.        *)
(***************************************************************************)
File(content, mode) == [exists |-> TRUE, content |-> content, mode |-> mode]
NoFile == [exists |-> FALSE, content |-> <<>>, mode |-> ""]

OldBinary == File(<<"old">>, "0755")      \* a previous installation
StaleDownload == File(<<"stale">>, "0666") \* left by an earlier failed run

FinalName(os) == IF os = "windows" THEN "solvm.exe" ELSE "solvm"

FileNames ==
    {"solvm", "solvm.exe"}
    \cup {AssetName(o, a) : o \in SupportedOS, a \in SupportedArch}

NoFiles == [n \in FileNames |-> NoFile]

\* the download bodies a server can send
Chunks == {"a", "b"}
Bodies == SeqUpTo(Chunks, MaxBody)

RcNames == {".zshrc", ".bashrc"}
NoRc == [exists |-> FALSE, lines |-> <<>>]
Rc(lines) == [exists |-> TRUE, lines |-> lines]
PathLine == "export PATH=\"<installDir>:$PATH\""

Shells == { <<"/", "b", "i", "n", "/", "z", "s", "h">>,
            <<"/", "b", "i", "n", "/", "b", "a", "s", "h">>,
            <<>> }

\* checkExistingInstallation
CheckExistingInstallation(os, fs) ==
    IF os = "windows" THEN fs["solvm.exe"].exists ELSE fs["solvm"].exists

\* the resource file addToPath selects
RcFile(sh) == IF Contains(sh, <<"z", "s", "h">>) THEN ".zshrc" ELSE ".bashrc"

(***************************************************************************)
(* The run of main.                                                        *)
(***************************************************************************)
Banner == <<"SolVM Installer", "===============">>
Cancelled == "Installation cancelled"
Complete == <<"Installation complete!",
              "Please restart your terminal to use SolVM">>

InitialFiles(os, arch, dir) ==
    IF ~dir THEN {NoFiles}
    ELSE { [n \in FileNames |->
              IF n = FinalName(os) /\ old THEN OldBinary
              ELSE IF os \in SupportedOS /\ arch \in SupportedArch
                      /\ n = AssetName(os, arch) /\ stale THEN StaleDownload
              ELSE NoFile] : old \in BOOLEAN, stale \in BOOLEAN }

InitialRc(os) ==
    IF os = "windows" THEN {[n \in RcNames |-> NoRc]}
    ELSE { [n \in RcNames |-> NoRc],
           [n \in RcNames |-> Rc(<<>>)],
           [n \in RcNames |-> Rc(<<PathLine>>)] }

InitLocals ==
    /\ shell = <<>>
    /\ requests = <<>>
    /\ lookup = Response("none", <<>>)
    /\ release = <<>>
    /\ assetName = ""
    /\ asset = <<>>
    /\ err = ""
    /\ served = <<>>
    /\ prompts = 0
    /\ line = <<>>
    /\ response = <<>>
    /\ answer = <<>>

Init ==
    /\ goos \in GOOSValues
    /\ goarch \in GOARCHValues
    /\ pc = "start"
    /\ exitCode = 0
    /\ out = <<>>
    /\ dirExists \in BOOLEAN
    /\ files \in InitialFiles(goos, goarch, dirExists)
    /\ files0 = files
    /\ rcFiles \in InitialRc(goos)
    /\ winPath \in (IF goos = "windows" THEN {0, 1} ELSE {0})
    /\ InitLocals

AskPoints == {"askReplace", "askInstall", "askPath"}

\* os.Exit(code), or the return from main, after printing msgs
Exit(code, msgs) ==
    /\ pc' = "exit"
    /\ exitCode' = code
    /\ out' = out \o msgs
    /\ prompts' = 0

\* main goes on to `where` after printing msgs; entering askForConfirmation
\* prints its prompt
Goto(where, msgs) ==
    /\ pc' = where
    /\ exitCode' = exitCode
    /\ out' = out \o msgs
    /\ prompts' = IF where \in AskPoints THEN 1 ELSE 0

\* the locals of askForConfirmation do not outlive its return
NoAskLocals ==
    /\ line' = <<>>
    /\ response' = <<>>
    /\ answer' = <<>>

\* main, lines 179-191: after os.UserHomeDir
AfterHomeDir(ok) ==
    IF ~ok THEN Exit(1, Banner \o <<"Error getting home directory">>)
    ELSE IF CheckExistingInstallation(goos, files)
    THEN Goto("askReplace", Banner)
    ELSE Goto("getRelease", Banner)

Start ==
    /\ pc = "start"
    /\ \E homeOk \in BOOLEAN :
          /\ err' = IF homeOk THEN "" ELSE "home"
          /\ AfterHomeDir(homeOk)
    /\ NoAskLocals
    /\ UNCHANGED <<goos, goarch, shell, dirExists, files, files0, rcFiles,
                   winPath, requests, lookup, release, assetName, asset,
                   served>>

\* main after askForConfirmation returned `yes` at the prompt `where`
\* faulty variant: the answer to the replace prompt is ignored
AfterAsk_ReplaceIgnored(where, yes) ==
    IF where = "askReplace"
    THEN Goto("getRelease", <<>>)
    ELSE IF where = "askInstall"
    THEN IF yes THEN Goto("mkdir", <<>>) ELSE Exit(0, <<Cancelled>>)
    ELSE IF yes THEN Goto("addToPath", <<"Adding to PATH...">>)
         ELSE Exit(0, <<"Skipping PATH configuration">> \o Complete)

AfterAsk(where, yes) ==
    IF where = "askReplace"
    THEN IF yes THEN Goto("getRelease", <<>>) ELSE Exit(0, <<Cancelled>>)
    ELSE IF where = "askInstall"
    THEN IF yes THEN Goto("mkdir", <<>>) ELSE Exit(0, <<Cancelled>>)
    ELSE IF yes THEN Goto("addToPath", <<"Adding to PATH...">>)
         ELSE Exit(0, <<"Skipping PATH configuration">> \o Complete)

\* askForConfirmation, one ReadString and what follows it
AskRead ==
    /\ pc \in AskPoints
    /\ \E data \in StdinData :
          LET read == ReadString(data)
              c == Classify(read)
          IN  /\ line' = read.text
              /\ response' = IF read.eof THEN read.text
                                        ELSE Normalise(read.text)
              /\ IF c = "again"
                 THEN /\ prompts < MaxPrompts
                      /\ prompts' = prompts + 1
                      /\ answer' = <<>>
                      /\ UNCHANGED <<pc, exitCode, out>>
                 ELSE /\ answer' = <<c = "yes">>
                      /\ AfterAsk(pc, c = "yes")
    /\ UNCHANGED <<goos, goarch, shell, dirExists, files, files0, rcFiles,
                   winPath, requests, lookup, release, assetName, asset,
                   err, served>>

\* main, lines 193-199: after getLatestRelease
AfterRelease(r) ==
    IF r.err # "" THEN Exit(1, <<"Error getting latest release">>)
    ELSE Goto("getAsset", <<"Latest version: " \o r.release[1].TagName>>)

GetLatestReleaseFrom(responses) ==
    /\ pc = "getRelease"
    /\ \E resp \in responses :
          LET r == GetLatestRelease(resp)
          IN  /\ requests' = Append(requests, ReleasesURL)
              /\ lookup' = resp
              /\ release' = r.release
              /\ err' = r.err
              /\ AfterRelease(r)
    /\ NoAskLocals
    /\ UNCHANGED <<goos, goarch, shell, dirExists, files, files0, rcFiles,
                   winPath, assetName, asset, served>>

GetLatestReleaseStep == GetLatestReleaseFrom(RunResponses)

\* main, lines 201-212: after getSystemAsset
AfterAsset(r) ==
    IF r.err # "" THEN Exit(1, <<"Error finding system asset">>)
    ELSE Goto("askInstall", <<"Found matching asset: " \o r.asset[1].Name>>)

GetSystemAssetStep ==
    /\ pc = "getAsset"
    /\ LET r == GetSystemAsset(goos, goarch, release[1])
       IN  /\ asset' = r.asset
           /\ assetName' = r.name
           /\ err' = r.err
           /\ AfterAsset(r)
    /\ NoAskLocals
    /\ UNCHANGED <<goos, goarch, shell, dirExists, files, files0, rcFiles,
                   winPath, requests, lookup, release, served>>

\* main, lines 214-220: os.MkdirAll
AfterMkdir(e) ==
    IF e # "" THEN Exit(1, <<"Error creating install directory">>)
    ELSE Goto("download", <<"Downloading to: " \o asset[1].Name>>)

Mkdir ==
    /\ pc = "mkdir"
    /\ \E ok \in (IF dirExists THEN {TRUE} ELSE BOOLEAN) :
          /\ dirExists' = (dirExists \/ ok)
          /\ err' = IF ok THEN "" ELSE "mkdir"
          /\ AfterMkdir(IF ok THEN "" ELSE "mkdir")
    /\ NoAskLocals
    /\ UNCHANGED <<goos, goarch, shell, files, files0, rcFiles, winPath,
                   requests, lookup, release, assetName, asset, served>>

\* downloadFile(url, dest) on the files fs: the server sends body, and the
\* call ends as `outcome` says; a copy that fails has written k chunks
DownloadOutcomes == {"get", "bad status", "create", "copy", "ok"}

DownloadFile(fs, dest, body, outcome, k) ==
    LET mode == IF fs[dest].exists THEN fs[dest].mode ELSE "0666"
    IN  IF outcome \in {"get", "bad status", "create"}
        THEN [files |-> fs, err |-> outcome]
        ELSE IF outcome = "copy"
        THEN [files |-> [fs EXCEPT ![dest] = File(SubSeq(body, 1, k), mode)],
              err |-> "copy"]
        ELSE [files |-> [fs EXCEPT ![dest] = File(body, mode)], err |-> ""]

\* main, lines 222-231: after downloadFile
\* faulty variant: the error of downloadFile is ignored
AfterDownload_Ignored(e) == Goto("rename", <<>>)

AfterDownload(e) ==
    IF e # "" THEN Exit(1, <<"Error downloading file">>)
    ELSE Goto("rename", <<>>)

Download ==
    /\ pc = "download"
    /\ \E body \in Bodies, outcome \in DownloadOutcomes :
       \E k \in (IF outcome = "copy" THEN 0..Len(body) ELSE {0}) :
          LET r == DownloadFile(files, asset[1].Name, body, outcome, k)
          IN  /\ requests' = Append(requests, asset[1].BrowserDownloadURL)
              /\ served' = body
              /\ files' = r.files
              /\ err' = r.err
              /\ AfterDownload(r.err)
    /\ NoAskLocals
    /\ UNCHANGED <<goos, goarch, shell, dirExists, files0, rcFiles, winPath,
                   lookup, release, assetName, asset>>

\* os.Rename(from, to) inside the install directory
\* faulty variant: a copy, which leaves the source in place
Rename_Copy(fs, from, to) == [fs EXCEPT ![to] = fs[from]]

Rename(fs, from, to) == [fs EXCEPT ![to] = fs[from], ![from] = NoFile]

\* main, lines 233-243: after os.Rename
AfterRename(e) ==
    IF e # "" THEN Exit(1, <<"Error renaming file">>)
    ELSE IF goos # "windows" THEN Goto("chmod", <<>>)
    ELSE Goto("askPath", <<>>)

RenameStep ==
    /\ pc = "rename"
    /\ \E ok \in BOOLEAN :
          /\ files' = IF ok THEN Rename(files, asset[1].Name, FinalName(goos))
                      ELSE files
          /\ err' = IF ok THEN "" ELSE "rename"
          /\ AfterRename(IF ok THEN "" ELSE "rename")
    /\ NoAskLocals
    /\ UNCHANGED <<goos, goarch, shell, dirExists, files0, rcFiles, winPath,
                   requests, lookup, release, assetName, asset, served>>

\* os.Chmod(name, mode)
Chmod(fs, name, mode) == [fs EXCEPT ![name].mode = mode]

\* main, lines 239-245: after os.Chmod
\* faulty variant: a failed chmod does not end the run
AfterChmod_Soft(e) == Goto("askPath", <<>>)

AfterChmod(e) ==
    IF e # "" THEN Exit(1, <<"Error setting executable permissions">>)
    ELSE Goto("askPath", <<>>)

ChmodStep ==
    /\ pc = "chmod"
    /\ \E ok \in BOOLEAN :
          /\ files' = IF ok THEN Chmod(files, FinalName(goos), "0755")
                      ELSE files
          /\ err' = IF ok THEN "" ELSE "chmod"
          /\ AfterChmod(IF ok THEN "" ELSE "chmod")
    /\ NoAskLocals
    /\ UNCHANGED <<goos, goarch, shell, dirExists, files0, rcFiles, winPath,
                   requests, lookup, release, assetName, asset, served>>

\* addToPath.  env is what the environment does to its calls: open and write
\* for OpenFile and WriteString, run for cmd.Run (TRUE: the command was
\* found, ran and exited with status 0)
PathEnvs == [open : BOOLEAN, write : {"ok", "partial", "fail"}, run : BOOLEAN]

AddToPath(os, sh, rc, wp, env) ==
    IF os = "windows"
    THEN IF env.run
         THEN [rcFiles |-> rc, winPath |-> IF wp > 0 THEN wp ELSE wp + 1,
               err |-> ""]
         ELSE [rcFiles |-> rc, winPath |-> wp, err |-> "exec"]
    ELSE IF os \in {"darwin", "linux"}
    THEN LET f == RcFile(sh)
         IN  IF ~rc[f].exists \/ ~env.open
             THEN [rcFiles |-> rc, winPath |-> wp, err |-> "open"]
             ELSE IF env.write = "fail"
             THEN [rcFiles |-> rc, winPath |-> wp, err |-> "write"]
             ELSE IF env.write = "partial"
             THEN [rcFiles |->
                      [rc EXCEPT ![f].lines = Append(rc[f].lines, "export")],
                   winPath |-> wp, err |-> "write"]
             ELSE [rcFiles |->
                      [rc EXCEPT ![f].lines = Append(rc[f].lines, PathLine)],
                   winPath |-> wp,
                   err |-> IF env.run THEN "" ELSE "exec"]
    ELSE [rcFiles |-> rc, winPath |-> wp, err |-> ""]

\* main, lines 249-258: after addToPath
AfterAddToPath(e) ==
    IF e # ""
    THEN Exit(0, <<"Error adding to PATH", "Please manually add to PATH">>
                 \o Complete)
    ELSE Exit(0, <<"Successfully added to PATH">> \o Complete)

AddToPathStep ==
    /\ pc = "addToPath"
    /\ \E sh \in Shells, env \in PathEnvs :
          LET r == AddToPath(goos, sh, rcFiles, winPath, env)
          IN  /\ shell' = sh
              /\ rcFiles' = r.rcFiles
              /\ winPath' = r.winPath
              /\ err' = r.err
              /\ AfterAddToPath(r.err)
    /\ NoAskLocals
    /\ UNCHANGED <<goos, goarch, dirExists, files, files0, requests, lookup,
                   release, assetName, asset, served>>

Next ==
    \/ Start
    \/ AskRead
    \/ GetLatestReleaseStep
    \/ GetSystemAssetStep
    \/ Mkdir
    \/ Download
    \/ RenameStep
    \/ ChmodStep
    \/ AddToPathStep

Spec == Init /\ [][Next]_vars

(***************************************************************************)
(* The release lookup and the asset match on every release list of the     *)
(* bounds: the run is past the banner on a host without an installation,   *)
(* and goes through getLatestRelease and getSystemAsset.                   *)
(***************************************************************************)
InitLookup ==
    /\ goos \in GOOSValues
    /\ goarch \in GOARCHValues
    /\ pc = "getRelease"
    /\ exitCode = 0
    /\ out = Banner
    /\ dirExists = FALSE
    /\ files = NoFiles
    /\ files0 = files
    /\ rcFiles = [n \in RcNames |-> NoRc]
    /\ winPath = 0
    /\ InitLocals

LookupAll == GetLatestReleaseFrom(AllResponses)

NextLookup ==
    \/ LookupAll
    \/ GetSystemAssetStep

SpecLookup == InitLookup /\ [][NextLookup]_vars

(***************************************************************************)
(* Properties.                                                             *)
(***************************************************************************)
Printed(msg) == \E i \in 1..Len(out) : out[i] = msg

Supported == goos \in SupportedOS /\ goarch \in SupportedArch

\* the errors of the calls main treats as fatal, and those of addToPath
ReleaseErrors == {"transport", "decode", "no releases found"}
AssetErrors == {"unsupported operating system", "unsupported architecture",
                "no matching asset found"}
DownloadErrors == {"get", "bad status", "create", "copy"}
FatalErrors ==
    {"home", "mkdir", "rename", "chmod"}
    \cup ReleaseErrors \cup AssetErrors \cup DownloadErrors
PathErrors == {"open", "write", "exec"}

\* C1: when the download fails (request, status, file creation or copy), the
\* run has ended with exit code 1 and every file of the install directory
\* other than the temporary one, the final binary among them, is as it was
\* when the run started; a temporary file holds a prefix of the body.
C1_FailedDownloadLeavesFinal ==
    err \in DownloadErrors =>
        /\ pc = "exit"
        /\ exitCode = 1
        /\ files[FinalName(goos)] = files0[FinalName(goos)]
        /\ \A n \in FileNames \ {asset[1].Name} : files[n] = files0[n]
        /\ asset[1].Name # FinalName(goos)
        /\ \/ files[asset[1].Name] = files0[asset[1].Name]
           \/ /\ err = "copy"
              /\ files[asset[1].Name].exists
              /\ \E k \in 0..Len(served) :
                    files[asset[1].Name].content = SubSeq(served, 1, k)

C1_Witness ==
    /\ err = "copy"
    /\ pc = "exit"
    /\ files0[FinalName(goos)] = OldBinary
    /\ files[FinalName(goos)] = OldBinary
    /\ served = <<"a", "b">>
    /\ files[asset[1].Name].content = <<"a">>

\* C2: on a host that is not windows, a run that has ended did so because a
\* fatal step failed, or because the replace or install confirmation was
\* declined, or else it ended with exit code 0 with the downloaded body at
\* <home>/.solvm/solvm in mode 0755 and no file at the temporary path.
C2_InstalledExecutable ==
    (pc = "exit" /\ goos # "windows") =>
        \/ err \in FatalErrors
        \/ answer = <<FALSE>> /\ Len(requests) < 2
        \/ /\ exitCode = 0
           /\ Supported
           /\ files["solvm"] = File(served, "0755")
           /\ ~files[asset[1].Name].exists
           /\ release[1] = lookup.list[1]

C2_Witness ==
    /\ pc = "exit"
    /\ goos = "linux"
    /\ goarch = "amd64"
    /\ exitCode = 0
    /\ err = ""
    /\ files0["solvm"] = OldBinary
    /\ files0["solvm-linux-amd64"] = StaleDownload
    /\ served = <<"a", "b">>
    /\ files["solvm"] = File(<<"a", "b">>, "0755")
    /\ Printed("Successfully added to PATH")

\* C3: when the final binary exists and the first confirmation (replace the
\* installation) is declined, the run ends at once with exit code 0, no
\* request has been or is issued, the filesystem, the resource files and the
\* user Path are what they were, and nothing runs after the exit.
C3_DeclineReplaceNoNetwork ==
    [][ /\ (pc = "askReplace" /\ answer' = <<FALSE>>) =>
            /\ files0[FinalName(goos)].exists
            /\ pc' = "exit"
            /\ exitCode' = 0
            /\ requests = <<>>
            /\ requests' = <<>>
            /\ files' = files0
            /\ UNCHANGED <<files, dirExists, rcFiles, winPath>>
        /\ pc # "exit" ]_vars

C3_Witness ==
    /\ pc = "exit"
    /\ exitCode = 0
    /\ answer = <<FALSE>>
    /\ line = <<"N", "O", "\n">>
    /\ files0[FinalName(goos)] = OldBinary
    /\ files = files0
    /\ requests = <<>>
    /\ out = Banner \o <<Cancelled>>

\* what askForConfirmation has returned (<<>>: nothing, it reads again) once
\* ReadString returned text
Yes == {<<"y">>, <<"y", "e", "s">>}
No == {<<"n">>, <<"n", "o">>, <<>>}
HasNewline(text) == \E i \in 1..Len(text) : text[i] = "\n"
HasRead == line # <<>> \/ answer # <<>>

\* C4 as stated: every line read at a prompt that is not y or yes once
\* trimmed and lower-cased makes askForConfirmation return false, and y or
\* yes make it return true.
C4_Original ==
    (HasRead /\ HasNewline(line)) =>
        answer = <<Normalise(line) \in Yes>>

\* C4, amended: a line that is y or yes once trimmed and lower-cased makes
\* askForConfirmation return true; n, no and the empty line make it return
\* false; so does the end of input before a newline; on any other line it
\* does not return: it prints the prompt again and reads the next line.
C4_AskForConfirmation ==
    /\ HasRead =>
          /\ ~HasNewline(line) => answer = <<FALSE>>
          /\ (HasNewline(line) /\ Normalise(line) \in Yes) => answer = <<TRUE>>
          /\ (HasNewline(line) /\ Normalise(line) \in No) => answer = <<FALSE>>
          /\ (HasNewline(line) /\ Normalise(line) \notin (Yes \cup No)) =>
                (answer = <<>> /\ pc \in AskPoints /\ prompts > 1)
    /\ line = <<" ", "Y", "e", "S", "\r", "\n">> => answer = <<TRUE>>
    /\ line = <<"N", "O", "\n">> => answer = <<FALSE>>
    /\ line = <<" ", "\t", "\n">> => answer = <<FALSE>>
    /\ line = <<"y">> => answer = <<FALSE>>
    /\ line = <<"m", "a", "y", "b", "e", "\n">> => answer = <<>>
    /\ line = <<"y", "e", "p", "\n">> => answer = <<>>

C4_Witness ==
    /\ line = <<"m", "a", "y", "b", "e", "\n">>
    /\ response = <<"m", "a", "y", "b", "e">>
    /\ pc = "askInstall"
    /\ prompts = 2
    /\ answer = <<>>

\* C7: a failed addToPath is the only soft failure.  A state in which a
\* fatal call has failed is the exit with code 1, reached by the failing
\* step itself; the run exits with code 1 in no other case; and after a
\* failed addToPath the run has printed the diagnostic, the manual
\* instruction and the completion message, has exit code 0, and the binary
\* is at the final path.
C7_OnlyPathFailureIsSoft ==
    /\ err \in FatalErrors => (pc = "exit" /\ exitCode = 1)
    /\ (pc = "exit" /\ exitCode # 0) => (exitCode = 1 /\ err \in FatalErrors)
    /\ err \in PathErrors =>
          /\ pc = "exit"
          /\ exitCode = 0
          /\ Printed("Error adding to PATH")
          /\ Printed("Please manually add to PATH")
          /\ ~Printed("Successfully added to PATH")
          /\ out[Len(out) - 1] = "Installation complete!"
          /\ files[FinalName(goos)].exists
          /\ files[FinalName(goos)].content = served

C7_Witness ==
    /\ err = "exec"
    /\ goos = "windows"
    /\ pc = "exit"
    /\ exitCode = 0
    /\ Printed("Installation complete!")
    /\ files[FinalName(goos)].content = <<"a", "b">>

\* the asset name of each supported host, written out
ExpectedName ==
    IF goos = "windows" /\ goarch = "amd64" THEN "solvm-windows-amd64.exe"
    ELSE IF goos = "windows" /\ goarch = "arm64" THEN "solvm-windows-arm64.exe"
    ELSE IF goos = "darwin" /\ goarch = "amd64" THEN "solvm-darwin-amd64"
    ELSE IF goos = "darwin" /\ goarch = "arm64" THEN "solvm-darwin-arm64"
    ELSE IF goos = "linux" /\ goarch = "amd64" THEN "solvm-linux-amd64"
    ELSE IF goos = "linux" /\ goarch = "arm64" THEN "solvm-linux-arm64"
    ELSE ""

\* getSystemAsset has returned
Matched == release # <<>> /\ pc # "getAsset"

\* C5: on each of the six supported hosts the name getSystemAsset builds is
\* solvm-<os>-<arch>, followed by .exe exactly on windows.
C5_AssetNameConstruction ==
    (Matched /\ Supported) => assetName = ExpectedName

C5_Witness ==
    /\ Matched
    /\ goos = "windows"
    /\ goarch = "arm64"
    /\ assetName = "solvm-windows-arm64.exe"

\* C6: on a supported host getSystemAsset returns the first asset of the
\* release, in list order, whose name equals the expected name, that asset
\* itself (name and URL), and fails with "no matching asset found" when no
\* name equals it, whatever other names the list holds.
C6_FirstExactMatch ==
    (Matched /\ Supported) =>
        LET assets == release[1].Assets
            m == {i \in 1..Len(assets) : assets[i].Name = ExpectedName}
        IN  IF m = {}
            THEN asset = <<>> /\ err = "no matching asset found"
            ELSE /\ err = ""
                 /\ \E i \in m :
                       /\ \A j \in m : i <= j
                       /\ asset = <<assets[i]>>

C6_Witness ==
    /\ Matched
    /\ goos = "linux"
    /\ goarch = "amd64"
    /\ release[1].Assets = <<Asset("Solvm-Linux-AMD64", "U3"),
                             Asset("solvm-linux-amd64.tar.gz", "U4")>>
    /\ asset = <<>>
    /\ err = "no matching asset found"

\* C8: getLatestRelease returns the first release of a decoded list that is
\* not empty, as it was decoded, whatever follows it, and no error; fails
\* with "no releases found" on the empty list; and returns an error and no
\* release when the request or the decoding fails.
C8_FirstReleaseReturned ==
    lookup.kind # "none" =>
        IF lookup.kind = "ok" /\ lookup.list # <<>>
        THEN /\ release = <<lookup.list[1]>>
             /\ pc = "getAsset" => err = ""
        ELSE /\ release = <<>>
             /\ pc = "exit"
             /\ IF lookup.kind = "ok" THEN err = "no releases found"
                ELSE err \in ReleaseErrors \ {"no releases found"}

C8_Witness ==
    /\ pc = "getAsset"
    /\ Len(lookup.list) = 2
    /\ lookup.list[1].TagName = "v0.9.0"
    /\ lookup.list[2].TagName = "v9.0.0"
    /\ release = <<lookup.list[1]>>
    /\ Len(release[1].Assets) = 2

\* C9: on a host whose OS or architecture is not supported getSystemAsset
\* selects no asset and fails with an unsupported-platform error whatever
\* the release lists; it issues no request: the only request of the run is
\* the one for the release list, issued by main before the match.
C9_UnsupportedPlatform ==
    (~Supported /\ release # <<>>) =>
        /\ requests = <<ReleasesURL>>
        /\ pc # "getAsset" =>
              /\ asset = <<>>
              /\ err = IF goos \notin SupportedOS
                       THEN "unsupported operating system"
                       ELSE "unsupported architecture"
              /\ pc = "exit"
              /\ exitCode = 1

C9_Witness ==
    /\ goos = "freebsd"
    /\ goarch = "amd64"
    /\ pc = "exit"
    /\ err = "unsupported operating system"
    /\ \E i \in 1..Len(release[1].Assets) :
          release[1].Assets[i].Name = "solvm-freebsd-amd64"
    /\ asset = <<>>

\* C10 as stated: on darwin and linux, when addToPath has opened the
\* resource file and appended the export line to it, it returns no error
\* and the run prints "Successfully added to PATH".
C10_AppendedMeansSuccess ==
    [][ (/\ pc = "addToPath"
         /\ goos \in {"darwin", "linux"}
         /\ \E f \in RcNames :
               /\ rcFiles[f].exists
               /\ rcFiles'[f] = Rc(Append(rcFiles[f].lines, PathLine)))
        => (err' = "" /\ Printed("Successfully added to PATH")') ]_vars

====
